---- MODULE Spec2Model ----
(***************************************************************************)
(* Model of src/modules/package.rs: the package-version module of the      *)
(* prompt.  get_package_version probes seven manifest files in a fixed     *)
(* order, hands the text of the first readable one to its extractor, and   *)
(* every extractor passes the raw version through format_version.          *)
(*                                                                         *)
(* Strings are sequences of one-character strings.  A TOML or JSON file   *)
(* is modelled by what the parser (toml::from_str, json::from_str) makes   *)
(* of it: a syntax error, or a value tree.  The free-text files            *)
(* (build.gradle, mix.exs) are character sequences and the two regular     *)
(* expressions are matched character by character.                         *)
(***************************************************************************)
EXTENDS Integers, Sequences, FiniteSets, TLC

VARIABLES
    fs,        \* the directory: candidate file name -> contents or Unreadable
    pc,        \* per call of get_package_version: "idle", "probe", "done", "panicked"
    idx,       \* per call: index of the candidate whose read comes next
    reads,     \* per call: the candidates whose read was attempted, in order
    inspected, \* per call: <<file, extractor>> pairs handed to an extractor
    result,    \* per call: the Option returned
    fn,        \* pure functions: the function applied ("" before)
    input,     \* pure functions: the argument
    output,    \* pure functions: the value returned
    again      \* pure functions: format_version applied to output

vars == <<fs, pc, idx, reads, inspected, result, fn, input, output, again>>
callVars == <<fs, pc, idx, reads, inspected, result>>
pureVars == <<fn, input, output, again>>

(***************************************************************************)
(* Bounds                                                                  *)
(***************************************************************************)
MaxLen == 3      \* longest enumerated version string
MaxParts == 5    \* most pieces concatenated into a build.gradle / mix.exs text
NumCalls == 2    \* concurrent calls of get_package_version

(***************************************************************************)
(* Option and Result                                                       *)
(***************************************************************************)
None == [tag |-> "None"]
Some(v) == [tag |-> "Some", val |-> v]
Panic == [tag |-> "Panic"]
Ok(v) == [tag |-> "Ok", val |-> v]
Err == [tag |-> "Err"]

(***************************************************************************)
(* Characters and strings                                                  *)
(***************************************************************************)
DQ == "\""
SQ == "'"
NL == "\n"

\* char::is_whitespace, on the characters the model uses
IsWhitespace(c) == c \in {" ", "\t", "\n", "\r"}

RECURSIVE trim_start(_)
trim_start(s) ==
    IF s # <<>> /\ IsWhitespace(Head(s)) THEN trim_start(Tail(s)) ELSE s

RECURSIVE trim_end(_)
trim_end(s) ==
    IF s # <<>> /\ IsWhitespace(s[Len(s)])
    THEN trim_end(SubSeq(s, 1, Len(s) - 1))
    ELSE s

\* str::trim
trim(s) == trim_end(trim_start(s))

\* str::replace(c, "")
remove_char(s, c) == SelectSeq(s, LAMBDA x : x # c)

\* str::starts_with(char)
starts_with(s, c) == s # <<>> /\ Head(s) = c

\* faulty variant: trims before the double quotes are removed
format_version_trim_first(version) ==
    LET cleaned == remove_char(trim(version), DQ)
    IN  IF starts_with(cleaned, "v") THEN cleaned ELSE <<"v">> \o cleaned

\* faulty variant: the whitespace is never trimmed
format_version_no_trim(version) ==
    LET cleaned == remove_char(version, DQ)
    IN  IF starts_with(cleaned, "v") THEN cleaned ELSE <<"v">> \o cleaned

format_version(version) ==
    LET cleaned == trim(remove_char(version, DQ))
    IN  IF starts_with(cleaned, "v") THEN cleaned ELSE <<"v">> \o cleaned

(***************************************************************************)
(* Parsed TOML and JSON values                                             *)
(***************************************************************************)
EmptyMap == [k \in {} |-> None]

TString(s) == [type |-> "String", str |-> s]
TInteger == [type |-> "Integer"]
TTable(f) == [type |-> "Table", entries |-> f]

JNull == [type |-> "Null"]
JBool(b) == [type |-> "Bool", bool |-> b]
JNumber == [type |-> "Number"]
JString(s) == [type |-> "String", str |-> s]
JArray == [type |-> "Array"]
JObject(f) == [type |-> "Object", entries |-> f]

\* a file's text as the parser sees it
BadSyntax == [syntax |-> "bad"]
Doc(v) == [syntax |-> "ok", doc |-> v]

\* toml::from_str
toml_from_str(file_contents) ==
    IF file_contents.syntax = "ok" THEN Ok(file_contents.doc) ELSE Err

\* json::from_str
json_from_str(file_contents) ==
    IF file_contents.syntax = "ok" THEN Ok(file_contents.doc) ELSE Err

\* toml::Value::get with a string key
toml_get(v, key) ==
    IF v.type = "Table" /\ key \in DOMAIN v.entries
    THEN Some(v.entries[key])
    ELSE None

\* json::Value::get with a string key
json_get(v, key) ==
    IF v.type = "Object" /\ key \in DOMAIN v.entries
    THEN Some(v.entries[key])
    ELSE None

\* Value::as_str, both libraries
as_str(v) == IF v.type = "String" THEN Some(v.str) ELSE None

\* json::Value::as_bool
as_bool(v) == IF v.type = "Bool" THEN Some(v.bool) ELSE None

\* Option::and_then(json::Value::as_bool)
and_then_as_bool(o) == IF o = None THEN None ELSE as_bool(o.val)

NullStr == <<"n", "u", "l", "l">>

(***************************************************************************)
(* The structured extractors                                               *)
(***************************************************************************)
\* faulty variant: the parse result is unwrapped instead of `.ok()?`
extract_cargo_version_unwrap(file_contents) ==
    LET parsed == toml_from_str(file_contents)
    IN  IF parsed = Err THEN Panic ELSE
        LET package == toml_get(parsed.val, "package")
        IN  IF package = None THEN None ELSE
            LET version == toml_get(package.val, "version")
            IN  IF version = None THEN None ELSE
                LET raw_version == as_str(version.val)
                IN  IF raw_version = None THEN None
                    ELSE Some(format_version(raw_version.val))

extract_cargo_version(file_contents) ==
    LET parsed == toml_from_str(file_contents)
    IN  IF parsed = Err THEN None ELSE
        LET package == toml_get(parsed.val, "package")
        IN  IF package = None THEN None ELSE
            LET version == toml_get(package.val, "version")
            IN  IF version = None THEN None ELSE
                LET raw_version == as_str(version.val)
                IN  IF raw_version = None THEN None
                    ELSE Some(format_version(raw_version.val))

\* faulty variant: any `private` key at all suppresses the version
extract_package_version_any_private(file_contents) ==
    LET parsed == json_from_str(file_contents)
    IN  IF parsed = Err THEN None ELSE
        IF json_get(parsed.val, "private") # None THEN None ELSE
        LET version == json_get(parsed.val, "version")
        IN  IF version = None THEN None ELSE
            LET raw_version == as_str(version.val)
            IN  IF raw_version = None THEN None ELSE
                IF raw_version.val = NullStr THEN None
                ELSE Some(format_version(raw_version.val))

extract_package_version(file_contents) ==
    LET parsed == json_from_str(file_contents)
    IN  IF parsed = Err THEN None ELSE
        IF and_then_as_bool(json_get(parsed.val, "private")) = Some(TRUE)
        THEN None ELSE
        LET version == json_get(parsed.val, "version")
        IN  IF version = None THEN None ELSE
            LET raw_version == as_str(version.val)
            IN  IF raw_version = None THEN None ELSE
                IF raw_version.val = NullStr THEN None
                ELSE Some(format_version(raw_version.val))

extract_poetry_version(file_contents) ==
    LET parsed == toml_from_str(file_contents)
    IN  IF parsed = Err THEN None ELSE
        LET tool == toml_get(parsed.val, "tool")
        IN  IF tool = None THEN None ELSE
            LET poetry == toml_get(tool.val, "poetry")
            IN  IF poetry = None THEN None ELSE
                LET version == toml_get(poetry.val, "version")
                IN  IF version = None THEN None ELSE
                    LET raw_version == as_str(version.val)
                    IN  IF raw_version = None THEN None
                        ELSE Some(format_version(raw_version.val))

\* faulty variant: the literal "null" is not suppressed
extract_composer_version_keep_null(file_contents) ==
    LET parsed == json_from_str(file_contents)
    IN  IF parsed = Err THEN None ELSE
        LET version == json_get(parsed.val, "version")
        IN  IF version = None THEN None ELSE
            LET raw_version == as_str(version.val)
            IN  IF raw_version = None THEN None
                ELSE Some(format_version(raw_version.val))

extract_composer_version(file_contents) ==
    LET parsed == json_from_str(file_contents)
    IN  IF parsed = Err THEN None ELSE
        LET version == json_get(parsed.val, "version")
        IN  IF version = None THEN None ELSE
            LET raw_version == as_str(version.val)
            IN  IF raw_version = None THEN None ELSE
                IF raw_version.val = NullStr THEN None
                ELSE Some(format_version(raw_version.val))

extract_project_version(file_contents) ==
    LET parsed == toml_from_str(file_contents)
    IN  IF parsed = Err THEN None ELSE
        LET version == toml_get(parsed.val, "version")
        IN  IF version = None THEN None ELSE
            LET raw_version == as_str(version.val)
            IN  IF raw_version = None THEN None
                ELSE Some(format_version(raw_version.val))

(***************************************************************************)
(* The two regular expressions, matched as the regex crate matches them:   *)
(* the leftmost start position wins, and at that position the greedy       *)
(* class takes the longest run after which the rest of the pattern still   *)
(* matches.  Positions are 1-based.                                        *)
(***************************************************************************)
\* the literal `lit` stands in `text` at position i
literal_at(text, i, lit) ==
    /\ i + Len(lit) - 1 <= Len(text)
    /\ \A j \in 1..Len(lit) : text[i + j - 1] = lit[j]

\* (?m)^ : the start of the text or just after a line feed
line_start(text, i) == i = 1 \/ text[i - 1] = NL

\* (?m)$ : the end of the text or just before a line feed
line_end(text, i) == i = Len(text) + 1 \/ text[i] = NL

\* Regex::new(..) on the two pattern literals of the file: both compile
Regex_new(pattern) == IF pattern \in {"gradle", "mix"} THEN Ok(pattern) ELSE Err

VersionSp == <<"v", "e", "r", "s", "i", "o", "n", " ">>
VersionColon == <<"v", "e", "r", "s", "i", "o", "n", ":", " ">>

\* one attempt of ^version ['"](?P<version>[^'"]+)['"]$ at position i:
\* the lengths k of the capture for which the whole pattern matches
gradle_match_lengths(text, i) ==
    LET q == i + Len(VersionSp)     \* where the opening quote must stand
    IN  IF ~ ( /\ line_start(text, i)
               /\ literal_at(text, i, VersionSp)
               /\ q <= Len(text)
               /\ text[q] \in {SQ, DQ} )
        THEN {}
        ELSE { k \in 1..(Len(text) - q) :
                 /\ \A j \in 1..k : text[q + j] \notin {SQ, DQ}
                 /\ q + k + 1 <= Len(text)
                 /\ text[q + k + 1] \in {SQ, DQ}
                 /\ line_end(text, q + k + 2) }

\* Regex::captures for the Gradle pattern: Some(capture) of the leftmost match
gradle_captures(text) ==
    LET starts == { i \in 1..Len(text) : gradle_match_lengths(text, i) # {} }
    IN  IF starts = {} THEN None
        ELSE LET i == CHOOSE a \in starts : \A b \in starts : a <= b
                 ks == gradle_match_lengths(text, i)
                 k == CHOOSE a \in ks : \A b \in ks : a >= b
                 q == i + Len(VersionSp)
             IN  Some(SubSeq(text, q + 1, q + k))

extract_gradle_version(file_contents) ==
    IF Regex_new("gradle") = Err THEN Panic ELSE
    LET caps == gradle_captures(file_contents)
    IN  IF caps = None THEN None ELSE Some(format_version(caps.val))

\* one attempt of version: "(?P<version>[^"]+)" at position i
mix_match_lengths(text, i) ==
    LET q == i + Len(VersionColon)  \* where the opening quote must stand
    IN  IF ~ ( /\ literal_at(text, i, VersionColon)
               /\ q <= Len(text)
               /\ text[q] = DQ )
        THEN {}
        ELSE { k \in 1..(Len(text) - q) :
                 /\ \A j \in 1..k : text[q + j] # DQ
                 /\ q + k + 1 <= Len(text)
                 /\ text[q + k + 1] = DQ }

\* faulty variant: the capture class is [0-9.]+ and stops at `+` and `-`
mix_captures_digits_only(text) ==
    LET lens(i) == { k \in mix_match_lengths(text, i) :
                       \A j \in 1..k :
                          text[i + Len(VersionColon) + j] \in
                              {"0", "1", "2", "3", "4", "5", "6", "7", "8", "9", "."} }
        starts == { i \in 1..Len(text) : lens(i) # {} }
    IN  IF starts = {} THEN None
        ELSE LET i == CHOOSE a \in starts : \A b \in starts : a <= b
                 k == CHOOSE a \in lens(i) : \A b \in lens(i) : a >= b
                 q == i + Len(VersionColon)
             IN  Some(SubSeq(text, q + 1, q + k))

\* Regex::captures for the Mix pattern: Some(capture) of the leftmost match
mix_captures(text) ==
    LET starts == { i \in 1..Len(text) : mix_match_lengths(text, i) # {} }
    IN  IF starts = {} THEN None
        ELSE LET i == CHOOSE a \in starts : \A b \in starts : a <= b
                 ks == mix_match_lengths(text, i)
                 k == CHOOSE a \in ks : \A b \in ks : a >= b
                 q == i + Len(VersionColon)
             IN  Some(SubSeq(text, q + 1, q + k))

extract_mix_version(file_contents) ==
    IF Regex_new("mix") = Err THEN Panic ELSE
    LET caps == mix_captures(file_contents)
    IN  IF caps = None THEN None ELSE Some(format_version(caps.val))

(***************************************************************************)
(* Inputs of the pure functions                                            *)
(***************************************************************************)
Alphabet == {"v", "1", " ", DQ, SQ}

\* every string over Alphabet of length at most n
Strings(n) == UNION { [1..k -> Alphabet] : k \in 0..n }

SpecialStrings ==
    { NullStr,
      <<" ", "n", "u", "l", "l">>,
      <<"0", ".", "1", ".", "0">>,
      <<"0", ".", "1", ".", "0", "-", "r", "c", "1">> }

VersionStrings == Strings(MaxLen) \cup SpecialStrings

\* the tables a version can sit in: empty, name only, version of each type
TomlLeaves ==
    { EmptyMap,
      "name" :> TString(<<"x">>),
      "version" :> TInteger }
    \cup { "version" :> TString(s) : s \in VersionStrings }
    \cup { ("name" :> TString(<<"x">>)) @@ ("version" :> TString(s)) :
              s \in SpecialStrings }

TomlDocs ==
    { BadSyntax,
      Doc(TTable("package" :> TString(<<"x">>))),
      Doc(TTable("tool" :> TInteger)),
      Doc(TTable("tool" :> TTable("poetry" :> TInteger))) }
    \cup { Doc(TTable(l)) : l \in TomlLeaves }
    \cup { Doc(TTable("package" :> TTable(l))) : l \in TomlLeaves }
    \cup { Doc(TTable("tool" :> TTable(l))) : l \in TomlLeaves }
    \cup { Doc(TTable("tool" :> TTable("poetry" :> TTable(l)))) : l \in TomlLeaves }

JsonPrivate ==
    { JNull, JBool(TRUE), JBool(FALSE), JNumber, JString(<<"t", "r", "u", "e">>) }

JsonVersion ==
    { JNull, JBool(TRUE), JNumber } \cup { JString(s) : s \in VersionStrings }

JsonDocs ==
    { BadSyntax, Doc(JArray), Doc(JNull), Doc(JString(<<"1">>)), Doc(JObject(EmptyMap)) }
    \cup { Doc(JObject("private" :> p)) : p \in JsonPrivate }
    \cup { Doc(JObject("version" :> v)) : v \in JsonVersion }
    \cup { Doc(JObject(("private" :> p) @@ ("version" :> v))) :
              p \in JsonPrivate, v \in JsonVersion }

RECURSIVE Concat(_)
Concat(parts) == IF parts = <<>> THEN <<>> ELSE Head(parts) \o Concat(Tail(parts))

\* every text made of at most n pieces
Texts(pieces, n) == { Concat(ps) : ps \in UNION { [1..k -> pieces] : k \in 0..n } }

GradlePieces ==
    { VersionSp, <<SQ>>, <<DQ>>, <<"0", ".", "1">>, <<NL>>, <<"i", "d", " ">> }

MixPieces ==
    { VersionColon \o <<DQ>>, <<DQ>>, <<"1", ".", "0">>, <<"+", "b">>, <<" ">>, <<SQ>> }

GradleTexts == Texts(GradlePieces, MaxParts)
MixTexts == Texts(MixPieces, MaxParts)

Arg(kind, arg) == [kind |-> kind, arg |-> arg]
Returned(s) == [tag |-> "String", val |-> s]

(***************************************************************************)
(* The pure functions, each applied once to an input drawn at Init         *)
(***************************************************************************)
InitPure ==
    /\ fs = <<>> /\ pc = <<>> /\ idx = <<>>
    /\ reads = <<>> /\ inspected = <<>> /\ result = <<>>
    /\ fn = ""
    /\ output = None
    /\ again = None
    /\ \/ \E s \in VersionStrings : input = Arg("str", s)
       \/ \E d \in TomlDocs : input = Arg("toml", d)
       \/ \E d \in JsonDocs : input = Arg("json", d)
       \/ \E t \in GradleTexts : input = Arg("gradle", t)
       \/ \E t \in MixTexts : input = Arg("mix", t)

Apply(kind, name, value) ==
    /\ fn = ""
    /\ input.kind = kind
    /\ fn' = name
    /\ output' = value
    /\ UNCHANGED <<input, again>>
    /\ UNCHANGED callVars

CallFormatVersion ==
    Apply("str", "format_version", Returned(format_version(input.arg)))

CallExtractCargo ==
    Apply("toml", "extract_cargo_version", extract_cargo_version(input.arg))

CallExtractPoetry ==
    Apply("toml", "extract_poetry_version", extract_poetry_version(input.arg))

CallExtractProject ==
    Apply("toml", "extract_project_version", extract_project_version(input.arg))

CallExtractPackage ==
    Apply("json", "extract_package_version", extract_package_version(input.arg))

CallExtractComposer ==
    Apply("json", "extract_composer_version", extract_composer_version(input.arg))

CallExtractGradle ==
    Apply("gradle", "extract_gradle_version", extract_gradle_version(input.arg))

CallExtractMix ==
    Apply("mix", "extract_mix_version", extract_mix_version(input.arg))

\* the returned version string is normalized a second time
CallFormatVersionAgain ==
    /\ fn # ""
    /\ again = None
    /\ output.tag \in {"String", "Some"}
    /\ again' = Some(format_version(output.val))
    /\ UNCHANGED <<fn, input, output>>
    /\ UNCHANGED callVars

NextPure ==
    \/ CallFormatVersion
    \/ CallExtractCargo
    \/ CallExtractPoetry
    \/ CallExtractProject
    \/ CallExtractPackage
    \/ CallExtractComposer
    \/ CallExtractGradle
    \/ CallExtractMix
    \/ CallFormatVersionAgain

SpecPure == InitPure /\ [][NextPure]_vars

(***************************************************************************)
(* The directory and the candidate table                                   *)
(***************************************************************************)
Candidates ==
    << "Cargo.toml", "package.json", "pyproject.toml", "composer.json",
       "build.gradle", "Project.toml", "mix.exs" >>

NumCandidates == Len(Candidates)

Unreadable == [readable |-> FALSE]
File(text) == [readable |-> TRUE, text |-> text]

\* utils::read_file(base_dir.join(name)) in directory dir
read_file(dir, name) == IF dir[name].readable THEN Ok(dir[name].text) ELSE Err

\* faulty variant: composer.json goes to the Node extractor
ExtractorOf_composer_as_package(name) ==
    CASE name = "Cargo.toml" -> "extract_cargo_version"
      [] name = "package.json" -> "extract_package_version"
      [] name = "pyproject.toml" -> "extract_poetry_version"
      [] name = "composer.json" -> "extract_package_version"
      [] name = "build.gradle" -> "extract_gradle_version"
      [] name = "Project.toml" -> "extract_project_version"
      [] name = "mix.exs" -> "extract_mix_version"

\* the extractor each branch of get_package_version calls
ExtractorOf(name) ==
    CASE name = "Cargo.toml" -> "extract_cargo_version"
      [] name = "package.json" -> "extract_package_version"
      [] name = "pyproject.toml" -> "extract_poetry_version"
      [] name = "composer.json" -> "extract_composer_version"
      [] name = "build.gradle" -> "extract_gradle_version"
      [] name = "Project.toml" -> "extract_project_version"
      [] name = "mix.exs" -> "extract_mix_version"

Extract(extractor, text) ==
    CASE extractor = "extract_cargo_version" -> extract_cargo_version(text)
      [] extractor = "extract_package_version" -> extract_package_version(text)
      [] extractor = "extract_poetry_version" -> extract_poetry_version(text)
      [] extractor = "extract_composer_version" -> extract_composer_version(text)
      [] extractor = "extract_gradle_version" -> extract_gradle_version(text)
      [] extractor = "extract_project_version" -> extract_project_version(text)
      [] extractor = "extract_mix_version" -> extract_mix_version(text)

\* get_package_version run alone: the if / else-if chain from candidate i on
RECURSIVE probe_from(_, _)
probe_from(dir, i) ==
    IF i > NumCandidates THEN None
    ELSE LET r == read_file(dir, Candidates[i])
         IN  IF r # Err THEN Extract(ExtractorOf(Candidates[i]), r.val)
             ELSE probe_from(dir, i + 1)

get_package_version(dir) == probe_from(dir, 1)

(***************************************************************************)
(* The directories explored: each candidate unreadable or one of a few     *)
(* texts, every file with a version of its own                             *)
(***************************************************************************)
V010 == <<"0", ".", "1", ".", "0">>
NameX == "name" :> TString(<<"x">>)

FileTexts(name) ==
    CASE name = "Cargo.toml" ->
           { Doc(TTable("package" :> TTable(NameX @@ ("version" :> TString(V010))))),
             Doc(TTable("package" :> TTable(NameX))),
             Doc(TTable("package" :> TTable(NameX @@ ("version" :> TInteger)))),
             BadSyntax }
      [] name = "package.json" ->
           { Doc(JObject("version" :> JString(<<"1">>))),
             Doc(JObject(("version" :> JString(<<"1">>)) @@ ("private" :> JBool(TRUE)))),
             BadSyntax }
      [] name = "pyproject.toml" ->
           { Doc(TTable("tool" :> TTable("poetry" :> TTable("version" :> TString(<<"2">>))))),
             Doc(TTable("tool" :> TTable("poetry" :> TTable(NameX)))) }
      [] name = "composer.json" ->
           { Doc(JObject(("version" :> JString(<<"3">>)) @@ ("private" :> JBool(TRUE)))),
             Doc(JObject("version" :> JString(NullStr))) }
      [] name = "build.gradle" ->
           { <<"i", "d", " ", SQ, "j", SQ, NL>> \o VersionSp \o <<SQ, "4", SQ, NL>>,
             <<"i", "d", " ", SQ, "j", SQ, " ">> \o VersionSp \o <<SQ, "4", SQ, NL>> }
      [] name = "Project.toml" ->
           { Doc(TTable(NameX @@ ("version" :> TString(<<"v", "5">>)))),
             Doc(TTable("package" :> TTable(NameX))) }
      [] name = "mix.exs" ->
           { <<"[">> \o VersionColon \o <<DQ, "6", "+", "b", DQ, "]">>,
             <<"[">> \o VersionColon \o <<DQ, DQ, "]">> }

\* what a candidate can be in a directory
FileStates(name) == {Unreadable} \cup { File(t) : t \in FileTexts(name) }

Calls == 1..NumCalls

(***************************************************************************)
(* get_package_version, one file read per step, NumCalls calls interleaved *)
(***************************************************************************)
Init ==
    /\ \E c1 \in FileStates(Candidates[1]), c2 \in FileStates(Candidates[2]),
          c3 \in FileStates(Candidates[3]), c4 \in FileStates(Candidates[4]),
          c5 \in FileStates(Candidates[5]), c6 \in FileStates(Candidates[6]),
          c7 \in FileStates(Candidates[7]) :
          fs = [ n \in { Candidates[i] : i \in 1..NumCandidates } |->
                   CASE n = Candidates[1] -> c1 [] n = Candidates[2] -> c2
                     [] n = Candidates[3] -> c3 [] n = Candidates[4] -> c4
                     [] n = Candidates[5] -> c5 [] n = Candidates[6] -> c6
                     [] n = Candidates[7] -> c7 ]
    /\ pc = [p \in Calls |-> "idle"]
    /\ idx = [p \in Calls |-> 1]
    /\ reads = [p \in Calls |-> <<>>]
    /\ inspected = [p \in Calls |-> <<>>]
    /\ result = [p \in Calls |-> None]
    /\ fn = "" /\ input = Arg("none", <<>>) /\ output = None /\ again = None

\* module() calls get_package_version(&context.current_dir)
Call(p) ==
    /\ pc[p] = "idle"
    /\ pc' = [pc EXCEPT ![p] = "probe"]
    /\ idx' = [idx EXCEPT ![p] = 1]
    /\ UNCHANGED <<fs, reads, inspected, result>>
    /\ UNCHANGED pureVars

\* `if let Ok(..) = utils::read_file(..)` fails: on to the next else-if
ReadErr(p) ==
    /\ pc[p] = "probe"
    /\ idx[p] <= NumCandidates
    /\ read_file(fs, Candidates[idx[p]]) = Err
    /\ reads' = [reads EXCEPT ![p] = Append(@, Candidates[idx[p]])]
    /\ idx' = [idx EXCEPT ![p] = @ + 1]
    /\ UNCHANGED <<fs, pc, inspected, result>>
    /\ UNCHANGED pureVars

\* faulty variant: a None from the extractor falls through to the next candidate
ReadOkFallback(p) ==
    /\ pc[p] = "probe"
    /\ idx[p] <= NumCandidates
    /\ read_file(fs, Candidates[idx[p]]) # Err
    /\ LET name == Candidates[idx[p]]
           out == Extract(ExtractorOf(name), read_file(fs, name).val)
       IN  /\ reads' = [reads EXCEPT ![p] = Append(@, name)]
           /\ inspected' = [inspected EXCEPT ![p] = Append(@, <<name, ExtractorOf(name)>>)]
           /\ IF out = None
              THEN /\ idx' = [idx EXCEPT ![p] = @ + 1]
                   /\ UNCHANGED <<pc, result>>
              ELSE /\ result' = [result EXCEPT ![p] = out]
                   /\ pc' = [pc EXCEPT ![p] = "done"]
                   /\ UNCHANGED idx
    /\ UNCHANGED fs
    /\ UNCHANGED pureVars

\* faulty variant: the read takes the file away, so the directory changes under the
\* other calls
ReadOkConsume(p) ==
    /\ pc[p] = "probe"
    /\ idx[p] <= NumCandidates
    /\ read_file(fs, Candidates[idx[p]]) # Err
    /\ LET name == Candidates[idx[p]]
           out == Extract(ExtractorOf(name), read_file(fs, name).val)
       IN  /\ reads' = [reads EXCEPT ![p] = Append(@, name)]
           /\ inspected' = [inspected EXCEPT ![p] = Append(@, <<name, ExtractorOf(name)>>)]
           /\ result' = [result EXCEPT ![p] = out]
           /\ pc' = [pc EXCEPT ![p] = IF out = Panic THEN "panicked" ELSE "done"]
           /\ fs' = [fs EXCEPT ![name] = Unreadable]
    /\ UNCHANGED idx
    /\ UNCHANGED pureVars

\* the read succeeds: the branch's extractor gets the text and its result is
\* the result of the call
ReadOk(p) ==
    /\ pc[p] = "probe"
    /\ idx[p] <= NumCandidates
    /\ read_file(fs, Candidates[idx[p]]) # Err
    /\ LET name == Candidates[idx[p]]
           out == Extract(ExtractorOf(name), read_file(fs, name).val)
       IN  /\ reads' = [reads EXCEPT ![p] = Append(@, name)]
           /\ inspected' = [inspected EXCEPT ![p] = Append(@, <<name, ExtractorOf(name)>>)]
           /\ result' = [result EXCEPT ![p] = out]
           /\ pc' = [pc EXCEPT ![p] = IF out = Panic THEN "panicked" ELSE "done"]
    /\ UNCHANGED <<fs, idx>>
    /\ UNCHANGED pureVars

\* the final `else { None }`
NoCandidate(p) ==
    /\ pc[p] = "probe"
    /\ idx[p] > NumCandidates
    /\ result' = [result EXCEPT ![p] = None]
    /\ pc' = [pc EXCEPT ![p] = "done"]
    /\ UNCHANGED <<fs, idx, reads, inspected>>
    /\ UNCHANGED pureVars

Next ==
    \E p \in Calls :
        \/ Call(p)
        \/ ReadErr(p)
        \/ ReadOk(p)
        \/ NoCandidate(p)

Spec == Init /\ [][Next]_vars

(***************************************************************************)
(* Properties of get_package_version (checked under Spec)                  *)
(***************************************************************************)
Min(S) == CHOOSE a \in S : \A b \in S : a <= b

\* C1: a finished call returns exactly what the paired extractor makes of the
\* first candidate, in the order Cargo.toml, package.json, pyproject.toml,
\* composer.json, build.gradle, Project.toml, mix.exs, whose read succeeds
\* (Some or None alike, no fallback), and None when no candidate is readable.
C1_FirstReadableDecides ==
    \A p \in Calls : pc[p] = "done" =>
        LET order == << "Cargo.toml", "package.json", "pyproject.toml",
                        "composer.json", "build.gradle", "Project.toml", "mix.exs" >>
            readable == { i \in 1..7 : fs[order[i]].readable }
        IN  IF readable = {} THEN result[p] = None
            ELSE LET i == Min(readable)
                     text == fs[order[i]].text
                 IN  result[p] =
                       CASE i = 1 -> extract_cargo_version(text)
                         [] i = 2 -> extract_package_version(text)
                         [] i = 3 -> extract_poetry_version(text)
                         [] i = 4 -> extract_composer_version(text)
                         [] i = 5 -> extract_gradle_version(text)
                         [] i = 6 -> extract_project_version(text)
                         [] i = 7 -> extract_mix_version(text)

\* a call has returned None from a Cargo.toml without version although the
\* package.json next to it holds one
C1_Witness ==
    \E p \in Calls :
        /\ pc[p] = "done"
        /\ result[p] = None
        /\ fs["Cargo.toml"].readable
        /\ fs["package.json"].readable
        /\ extract_package_version(fs["package.json"].text).tag = "Some"

\* C2: within a call the reads go in the fixed candidate order, a candidate is
\* read only after every candidate before it failed to read, a successful read
\* is the last read of the call, and at most one text, that of the file read
\* last, reaches an extractor, whatever the extractor returns.
C2_AtMostOneInspected ==
    \A p \in Calls :
        LET order == << "Cargo.toml", "package.json", "pyproject.toml",
                        "composer.json", "build.gradle", "Project.toml", "mix.exs" >>
            n == Len(reads[p])
        IN  /\ n <= 7
            /\ reads[p] = SubSeq(order, 1, n)
            /\ \A k \in 1..n : fs[reads[p][k]].readable => k = n
            /\ Len(inspected[p]) <= 1
            /\ inspected[p] # <<>> =>
                 /\ pc[p] \in {"done", "panicked"}
                 /\ inspected[p][1][1] = reads[p][n]
                 /\ fs[reads[p][n]].readable
            /\ (n > 0 /\ fs[reads[p][n]].readable) => Len(inspected[p]) = 1

\* a call ended with None from the one file it inspected while a later
\* candidate is readable and was never read
C2_Witness ==
    \E p \in Calls :
        /\ pc[p] = "done"
        /\ result[p] = None
        /\ Len(reads[p]) \in 2..6
        /\ Len(inspected[p]) = 1
        /\ \E k \in (Len(reads[p]) + 1)..7 : fs[Candidates[k]].readable

\* C3: no call ever ends in a panic; a finished call holds an Option, and it
\* is None after a syntax error, an absent version key or a version that is
\* not a string in the Cargo manifest.
C3_NeverPanics ==
    \A p \in Calls :
        /\ pc[p] # "panicked"
        /\ result[p].tag \in {"Some", "None"}
        /\ ( /\ pc[p] = "done"
             /\ fs["Cargo.toml"].readable
             /\ fs["Cargo.toml"].text \in
                  { BadSyntax,
                    Doc(TTable("package" :> TTable(NameX))),
                    Doc(TTable("package" :> TTable(NameX @@ ("version" :> TInteger)))) } )
           => result[p] = None

\* a call has returned None for a Cargo.toml that is not valid TOML
C3_Witness ==
    \E p \in Calls :
        /\ pc[p] = "done"
        /\ fs["Cargo.toml"] = File(BadSyntax)
        /\ result[p] = None

\* C10: however the reads of the calls interleave, every finished call holds
\* the result of a call run alone on the directory, so all finished calls agree.
C10_ConcurrentCallsAgree ==
    \A p \in Calls : pc[p] = "done" =>
        /\ result[p] = get_package_version(fs)
        /\ \A q \in Calls : pc[q] = "done" => result[q] = result[p]

\* two calls have both finished after failed reads, with a version
C10_Witness ==
    /\ \A p \in Calls : pc[p] = "done" /\ Len(reads[p]) >= 3
    /\ result[1].tag = "Some"

(***************************************************************************)
(* Properties of the pure functions (checked under SpecPure)               *)
(***************************************************************************)
IsObject(d) == d.syntax = "ok" /\ d.doc.type = "Object"
HasKey(d, key) == IsObject(d) /\ key \in DOMAIN d.doc.entries
IsPrivate(d) == HasKey(d, "private") /\ d.doc.entries["private"] = JBool(TRUE)

\* C4: the Node extractor returns None whenever private is the boolean true,
\* valid version or not; otherwise (private absent, false or no boolean) a
\* string version other than "null" comes back normalized, anything else None.
C4_PrivateSuppresses ==
    fn = "extract_package_version" =>
        LET d == input.arg
        IN  IF IsPrivate(d) THEN output = None
            ELSE IF /\ HasKey(d, "version")
                    /\ d.doc.entries["version"].type = "String"
                    /\ d.doc.entries["version"].str # NullStr
                 THEN output = Some(format_version(d.doc.entries["version"].str))
                 ELSE output = None

\* the Node extractor has returned None for a private manifest with a version
C4_Witness ==
    /\ fn = "extract_package_version"
    /\ IsPrivate(input.arg)
    /\ HasKey(input.arg, "version")
    /\ input.arg.doc.entries["version"] = JString(V010)
    /\ output = None

\* C5: the Node and the Composer extractor return None for the version "null"
\* (the string) and for the JSON null; any other string version of a manifest
\* that is not private comes back as Some of its normalized form.
C5_NullVersion ==
    (fn \in {"extract_package_version", "extract_composer_version"}
       /\ HasKey(input.arg, "version")) =>
        LET v == input.arg.doc.entries["version"]
        IN  /\ (v = JNull \/ v = JString(NullStr)) => output = None
            /\ (v.type = "String" /\ v.str # NullStr /\ ~ IsPrivate(input.arg))
                 => output = Some(format_version(v.str))

\* the Composer extractor has returned None for the version "null"
C5_Witness ==
    /\ fn = "extract_composer_version"
    /\ HasKey(input.arg, "version")
    /\ input.arg.doc.entries["version"] = JString(NullStr)
    /\ output = None

\* the lines of a text: <<first, last>> positions, last = first - 1 when empty
LinesOf(text) ==
    { se \in (1..(Len(text) + 1)) \X (0..Len(text)) :
        /\ se[2] >= se[1] - 1
        /\ (se[1] = 1 \/ text[se[1] - 1] = NL)
        /\ (se[2] = Len(text) \/ text[se[2] + 1] = NL)
        /\ \A k \in se[1]..se[2] : text[k] # NL }

\* the line is `version ` + a value in a pair of like quotes, the value
\* non-empty and free of that quote
IsVersionStatement(line) ==
    /\ Len(line) >= Len(VersionSp) + 3
    /\ SubSeq(line, 1, Len(VersionSp)) = VersionSp
    /\ line[Len(VersionSp) + 1] \in {SQ, DQ}
    /\ line[Len(line)] = line[Len(VersionSp) + 1]
    /\ \A k \in (Len(VersionSp) + 2)..(Len(line) - 1) : line[k] # line[Len(VersionSp) + 1]

\* C6: the Gradle extractor returns Some(normalize(value)) for the first line
\* that is `version ` + a value in a pair of single or a pair of double quotes
\* (value non-empty, without the enclosing quote), and None without such a line.
C6_GradleStatement ==
    fn = "extract_gradle_version" =>
        LET text == input.arg
            stmts == { se \in LinesOf(text) : IsVersionStatement(SubSeq(text, se[1], se[2])) }
        IN  IF stmts = {} THEN output = None
            ELSE LET se == CHOOSE a \in stmts : \A b \in stmts : a[1] <= b[1]
                 IN  output = Some(format_version(
                                 SubSeq(text, se[1] + Len(VersionSp) + 1, se[2] - 1)))

\* C7: format_version is idempotent: normalizing a returned version again
\* changes nothing.
C7_Idempotent ==
    again # None => again.val = output.val

\* a string whose trailing blank is shielded by a double quote was normalized twice
C7_Witness ==
    /\ fn = "format_version"
    /\ input.arg = <<"1", " ", DQ>>
    /\ again = Some(<<"v", "1">>)

Normalized(s) ==
    /\ s # <<>>
    /\ Head(s) = "v"
    /\ ~ IsWhitespace(s[1])
    /\ ~ IsWhitespace(s[Len(s)])
    /\ \A k \in 1..Len(s) : s[k] # DQ

\* C8 as stated: every string format_version returns, and every Some of an
\* extractor, starts with `v`, is non-empty, has no whitespace at either end
\* and holds neither a double nor a single quote.
C8_NoQuotesAtAll ==
    output.tag \in {"String", "Some"} =>
        /\ Normalized(output.val)
        /\ \A k \in 1..Len(output.val) : output.val[k] # SQ

\* C8 amended: every string format_version returns, and every Some of an
\* extractor, starts with `v`, is non-empty, has no whitespace at either end
\* and holds no double quote.
C8_Normalized ==
    output.tag \in {"String", "Some"} => Normalized(output.val)

\* the Cargo extractor has returned a version whose raw form held a blank, a
\* double quote and a single quote
C8_Witness ==
    /\ fn = "extract_cargo_version"
    /\ input.arg = Doc(TTable("package" :> TTable("version" :> TString(<<" ", DQ, SQ>>))))
    /\ output = Some(<<"v", SQ>>)

\* the positions where `version: "` stands, followed by at least one character
\* other than a double quote and then a double quote
MixOccurrences(text) ==
    { i \in 1..Len(text) :
        /\ literal_at(text, i, VersionColon \o <<DQ>>)
        /\ \E e \in (i + Len(VersionColon) + 2)..Len(text) :
             /\ text[e] = DQ
             /\ \A k \in (i + Len(VersionColon) + 1)..(e - 1) : text[k] # DQ }

\* C9: the Mix extractor returns Some(normalize(value)) for the first
\* occurrence of `version: "` + non-empty value + `"`, the value being the
\* characters up to the next double quote, and None without such an occurrence.
C9_MixValue ==
    fn = "extract_mix_version" =>
        LET text == input.arg
            occ == MixOccurrences(text)
        IN  IF occ = {} THEN output = None
            ELSE LET from == Min(occ) + Len(VersionColon) + 1
                     close == Min({ e \in from..Len(text) : text[e] = DQ })
                 IN  output = Some(format_version(SubSeq(text, from, close - 1)))

\* the Mix extractor has kept the build metadata of a version
C9_Witness ==
    /\ fn = "extract_mix_version"
    /\ input.arg = VersionColon \o <<DQ, "1", ".", "0", "+", "b", DQ>>
    /\ output = Some(<<"v", "1", ".", "0", "+", "b">>)

====
